---- MODULE Spec2Model ----
(***************************************************************************)
(* A model of the Orc8rBase charm library                                  *)
(* (lib/charms/magma_orc8r_libs/v0/orc8r_base.py): one unit of a charm     *)
(* that uses the library, the workload container (Pebble) it configures,   *)
(* the relations it requires and provides, and the operator framework's    *)
(* queue of deferred events.                                               *)
(*                                                                         *)
(* Every handler runs to completion before the next event is dispatched    *)
(* (the framework serialises dispatch), so each handler is one action.     *)
(* What a handler did is kept in `last`: the state it started from and     *)
(* the calls it made on its collaborators, in order (the record a test     *)
(* double of the container, the relation data and the event would keep).   *)
(***************************************************************************)
EXTENDS Naturals, Sequences, FiniteSets

\* Remote units per required relation.
MaxUnits == 1
\* Relations established on the provided endpoint (their ids are 1..MaxRelations).
MaxRelations == 2

(***************************************************************************)
(* Construction-time configuration                                         *)
(***************************************************************************)

\* charm.meta.name of the charm the tests instantiate.
service_name == "magma-orc8r-dummy"
container_name == service_name
\* charm.model.name
namespace == "banana"
startup_command == "/var/opt/magma/bin/dummy -logtostderr=true -v=0"

\* The relation names the charm's metadata declares as required.
RequiredNames == {"magma-orc8r-whatever", "magma-orc8r-certifier"}
RelIds == 1..MaxRelations

\* A dict with no key.
EmptyDict == [k \in {} |-> ""]
\* dict.update(e) applied to d.
DictUpdate(d, e) == [k \in DOMAIN d \cup DOMAIN e |-> IF k \in DOMAIN e THEN e[k] ELSE d[k]]

\* The constructor's arguments: required_relations (None becomes []) and
\* additional_environment_variables (None becomes {}).
Config(required, additional) ==
  [required_relations |-> required, additional_environment_variables |-> additional]

\* A charm with no required relation (the tests' MagmaOrc8rDummyCharm).
PlainConfigs == {Config(<<>>, EmptyDict)}

\* Charms with required relations (the tests' MagmaOrc8rDummyCharmWithRequiredRelation,
\* and one with two).
DepsConfigs ==
  { Config(<<"magma-orc8r-whatever">>, EmptyDict),
    Config(<<"magma-orc8r-whatever", "magma-orc8r-certifier">>, [k \in {"EXTRA"} |-> "x"]) }

\* Charms that pass additional environment variables, some under the names of the
\* default ones.
EnvKeys == {"EXTRA", "SERVICE_HOSTNAME", "SERVICE_REGISTRY_MODE", "SERVICE_REGISTRY_NAMESPACE"}
EnvValues == {"x", "k8s"}
EnvConfigs ==
  { Config(<<>>, d) : d \in UNION {[keys -> EnvValues] : keys \in SUBSET EnvKeys} }

VARIABLES
  config,       \* the constructor's arguments
  db,           \* the datastore relation (dependency-bearing variant): [exists, data (remote application data bag)]
  relations,    \* required relations: name -> [exists, units (remote unit data bags, in iteration order)]
  can_connect,  \* the workload container answers
  plan,         \* the container's Pebble plan: service name -> service
  leader,       \* this unit is the leader
  provided,     \* relations on the provided endpoint: id -> [exists, data (this unit's data bag)]
  status,       \* the unit status
  deferred,     \* events deferred and not yet redelivered
  last,         \* the last handler run, while nothing else has happened since
  streak        \* the lifecycle handlings run back to back (the last two): the plan each
                \* found and the number of layers it added

vars == <<config, db, relations, can_connect, plan, leader, provided, status, deferred, last, streak>>

(***************************************************************************)
(* Statuses, events, calls                                                 *)
(***************************************************************************)

ActiveStatus == [name |-> "active", message |-> ""]
BlockedStatus(msg) == [name |-> "blocked", message |-> msg]
WaitingStatus(msg) == [name |-> "waiting", message |-> msg]
MaintenanceStatus(msg) == [name |-> "maintenance", message |-> msg]

Event(kind, rel) == [kind |-> kind, rel |-> rel]
LifecycleKinds == {"pebble_ready", "upgrade_charm"}

\* One call a handler makes on a collaborator.
Call(op, rel, val) == [op |-> op, rel |-> rel, val |-> val]
Defer == Call("defer", 0, "")
SetStatus(st) == Call("set_status", 0, st.name)

\* ", ".join(names)
RECURSIVE Join(_, _)
Join(names, sep) ==
  IF names = <<>> THEN ""
  ELSE IF Len(names) = 1 THEN names[1]
  ELSE names[1] \o sep \o Join(Tail(names), sep)

\* str(bool)
Str(b) == IF b THEN "True" ELSE "False"

(***************************************************************************)
(* The collaborators' answers                                              *)
(***************************************************************************)

\* model.get_relation(relation_name); None is the record with exists = FALSE.
get_relation(relation_name) == relations[relation_name]
IsNone(rel) == ~rel.exists

\* container.get_service(name) on a container whose plan is p: the service, or the
\* error raised (ModelError when the service is not found).
get_service(p, name) ==
  IF ~can_connect THEN "ConnectionError"
  ELSE IF name \notin DOMAIN p THEN "ModelError"
  ELSE "ok"

\* Mutant: the layer replaces the plan.
add_layer_replace(p, layer) == layer.services

\* container.add_layer(label, layer, combine=True) on plan p: the services of the
\* layer replace the entries of the same name ("override": "replace"), the other
\* entries stay.
add_layer(p, layer) == DictUpdate(p, layer.services)

(***************************************************************************)
(* Orc8rBase: properties and helpers                                       *)
(***************************************************************************)

\* Mutant: the defaults are applied first and the additional variables over them.
environment_variables_additional_last ==
  LET default_environment_variables ==
        [k \in {"SERVICE_HOSTNAME", "SERVICE_REGISTRY_MODE", "SERVICE_REGISTRY_NAMESPACE"} |->
           CASE k = "SERVICE_HOSTNAME" -> container_name
             [] k = "SERVICE_REGISTRY_MODE" -> "k8s"
             [] OTHER -> namespace]
      with_defaults == DictUpdate(EmptyDict, default_environment_variables)
  IN DictUpdate(with_defaults, config.additional_environment_variables)

environment_variables ==
  LET default_environment_variables ==
        [k \in {"SERVICE_HOSTNAME", "SERVICE_REGISTRY_MODE", "SERVICE_REGISTRY_NAMESPACE"} |->
           CASE k = "SERVICE_HOSTNAME" -> container_name
             [] k = "SERVICE_REGISTRY_MODE" -> "k8s"
             [] OTHER -> namespace]
      with_additional == DictUpdate(EmptyDict, config.additional_environment_variables)
  IN DictUpdate(with_additional, default_environment_variables)

pebble_layer ==
  [summary |-> service_name \o " layer",
   description |-> "pebble config layer for " \o service_name,
   services |->
     [n \in {service_name} |->
        [override |-> "replace",
         summary |-> service_name,
         startup |-> "enabled",
         command |-> startup_command,
         environment |-> environment_variables]]]

\* The try block of _relation_active: what it returns, or the exception it raises.
relation_active_try(relation_name) ==
  LET rel == get_relation(relation_name) IN
  IF IsNone(rel) THEN [ret |-> FALSE, exc |-> "AttributeError"]
  ELSE IF rel.units = <<>> THEN [ret |-> FALSE, exc |-> "StopIteration"]
  ELSE IF "active" \notin DOMAIN Head(rel.units) THEN [ret |-> FALSE, exc |-> "KeyError"]
  ELSE [ret |-> (Head(rel.units)["active"] = "True"), exc |-> "none"]

\* Mutant: a missing "active" key is not caught.
relation_active_keyerror(relation_name) ==
  LET r == relation_active_try(relation_name) IN
  IF r.exc \in {"AttributeError", "StopIteration"}
  THEN [ret |-> FALSE, exc |-> "none"]
  ELSE r

\* Mutant: any value under "active" counts as ready.
relation_active_anyvalue(relation_name) ==
  LET r == relation_active_try(relation_name) IN
  IF r.exc \in {"AttributeError", "KeyError", "StopIteration"}
  THEN [ret |-> FALSE, exc |-> "none"]
  ELSE [ret |-> TRUE, exc |-> "none"]

relation_active(relation_name) ==
  LET r == relation_active_try(relation_name) IN
  IF r.exc \in {"AttributeError", "KeyError", "StopIteration"}
  THEN [ret |-> FALSE, exc |-> "none"]
  ELSE r

\* Mutant: the message names every required relation, not the missing ones.
relations_created_all ==
  LET missing_relations ==
        SelectSeq(config.required_relations, LAMBDA relation : IsNone(get_relation(relation)))
  IN IF missing_relations # <<>>
     THEN LET msg == "Waiting for relation(s) to be created: "
                     \o Join(config.required_relations, ", ")
          IN [ret |-> FALSE, status |-> BlockedStatus(msg), calls |-> <<SetStatus(BlockedStatus(msg))>>]
     ELSE [ret |-> TRUE, status |-> status, calls |-> <<>>]

\* Mutant: a unit that is Active takes the relations it found then as still there.
relations_created_cached ==
  LET missing_relations ==
        SelectSeq(config.required_relations, LAMBDA relation : IsNone(get_relation(relation)))
  IN IF status # ActiveStatus /\ missing_relations # <<>>
     THEN LET msg == "Waiting for relation(s) to be created: " \o Join(missing_relations, ", ")
          IN [ret |-> FALSE, status |-> BlockedStatus(msg), calls |-> <<SetStatus(BlockedStatus(msg))>>]
     ELSE [ret |-> TRUE, status |-> status, calls |-> <<>>]

\* The property _relations_created: its value, and the status it leaves.
relations_created ==
  LET missing_relations ==
        SelectSeq(config.required_relations, LAMBDA relation : IsNone(get_relation(relation)))
  IN IF missing_relations # <<>>
     THEN LET msg == "Waiting for relation(s) to be created: " \o Join(missing_relations, ", ")
          IN [ret |-> FALSE, status |-> BlockedStatus(msg), calls |-> <<SetStatus(BlockedStatus(msg))>>]
     ELSE [ret |-> TRUE, status |-> status, calls |-> <<>>]

\* The property _relations_ready: its value, and the status it leaves.
relations_ready ==
  LET missing_relations ==
        SelectSeq(config.required_relations, LAMBDA relation : ~relation_active(relation).ret)
  IN IF missing_relations # <<>>
     THEN LET msg == "Waiting for relation(s) to be ready: " \o Join(missing_relations, ", ")
          IN [ret |-> FALSE, status |-> WaitingStatus(msg), calls |-> <<SetStatus(WaitingStatus(msg))>>]
     ELSE [ret |-> TRUE, status |-> status, calls |-> <<>>]

\* Mutant: the service is asked for without checking that the container answers.
service_is_running_unchecked(p) ==
  LET r == get_service(p, service_name) IN
  IF r = "ok" THEN [ret |-> TRUE, exc |-> "none"]
  ELSE IF r = "ModelError" THEN [ret |-> FALSE, exc |-> "none"]
  ELSE [ret |-> FALSE, exc |-> r]

\* The property _service_is_running on a container whose plan is p: its value, or
\* the exception that leaves it.
service_is_running(p) ==
  IF can_connect
  THEN LET r == get_service(p, service_name) IN
       IF r = "ok" THEN [ret |-> TRUE, exc |-> "none"]
       ELSE IF r = "ModelError" THEN [ret |-> FALSE, exc |-> "none"]
       ELSE [ret |-> FALSE, exc |-> r]
  ELSE [ret |-> FALSE, exc |-> "none"]

\* Mutant: the data bag is replaced by the one key.
update_relation_active_status_replace(relation, is_active) ==
  [relation EXCEPT !.data = [k \in {"active"} |-> Str(is_active)]]

\* Mutant: the value is written in lower case.
update_relation_active_status_lower(relation, is_active) ==
  [relation EXCEPT !.data =
     DictUpdate(@, [k \in {"active"} |-> IF is_active THEN "true" ELSE "false"])]

\* relation.data[self.charm.unit].update({"active": str(is_active)})
update_relation_active_status(relation, is_active) ==
  [relation EXCEPT !.data = DictUpdate(@, [k \in {"active"} |-> Str(is_active)])]

\* The loop of _update_relations from relation r on, the container's plan being p.
RECURSIVE UpdateEach(_, _, _)
UpdateEach(r, p, bags) ==
  IF r > MaxRelations
  THEN [provided |-> bags, calls |-> <<>>, probes |-> <<>>, exc |-> "none"]
  ELSE IF ~bags[r].exists THEN UpdateEach(r + 1, p, bags)
  ELSE LET probe == service_is_running(p) IN
       IF probe.exc # "none"
       THEN [provided |-> bags, calls |-> <<>>, probes |-> <<probe>>, exc |-> probe.exc]
       ELSE LET rest == UpdateEach(r + 1, p,
                          [bags EXCEPT ![r] = update_relation_active_status(@, probe.ret)])
            IN [provided |-> rest.provided,
                calls |-> <<Call("relation_write", r, Str(probe.ret))>> \o rest.calls,
                probes |-> <<probe>> \o rest.probes,
                exc |-> rest.exc]

\* Mutant: every unit updates the relations.
update_relations_anyunit(p) == UpdateEach(1, p, provided)

update_relations(p) ==
  IF ~leader
  THEN [provided |-> provided, calls |-> <<>>, probes |-> <<>>, exc |-> "none"]
  ELSE UpdateEach(1, p, provided)

(***************************************************************************)
(* Orc8rBase: handlers.  Each gives what the handler leaves: the status,   *)
(* the plan, the provided relations' data, the calls made in order, the    *)
(* values the readiness probe returned, and the exception that left the    *)
(* handler ("none" on a normal return).                                    *)
(***************************************************************************)

Outcome(st, p, bags, calls, probes, exc) ==
  [status |-> st, plan |-> p, provided |-> bags, calls |-> calls, probes |-> probes, exc |-> exc]

\* Mutant: the plan is not compared; the layer always counts as new.
plan_differs_always(layer) == TRUE

\* Mutant: the whole layer is compared with the plan's services.
plan_differs_layer(layer) == plan # layer

\* plan.services != pebble_layer.services
plan_differs(layer) == plan # layer.services

\* Mutant: an unreachable container sets the status and the event is not deferred.
configure_charm_nodefer ==
  IF can_connect
  THEN LET maintenance == MaintenanceStatus("Configuring pod")
           layer == pebble_layer
       IN IF plan_differs(layer)
          THEN LET applied == add_layer(plan, layer)
                   upd == update_relations(applied)
                   calls == <<SetStatus(maintenance),
                              Call("add_layer", 0, container_name),
                              Call("restart", 0, service_name)>> \o upd.calls
               IN IF upd.exc # "none"
                  THEN Outcome(maintenance, applied, upd.provided, calls, upd.probes, upd.exc)
                  ELSE Outcome(ActiveStatus, applied, upd.provided,
                               calls \o <<SetStatus(ActiveStatus)>>, upd.probes, "none")
          ELSE Outcome(ActiveStatus, plan, provided,
                       <<SetStatus(maintenance), SetStatus(ActiveStatus)>>, <<>>, "none")
  ELSE LET waiting == WaitingStatus("Waiting for container to be ready...")
       IN Outcome(waiting, plan, provided, <<SetStatus(waiting)>>, <<>>, "none")

\* Mutant: the layer is added and the service is not restarted.
configure_charm_norestart ==
  IF can_connect
  THEN LET maintenance == MaintenanceStatus("Configuring pod")
           layer == pebble_layer
       IN IF plan_differs(layer)
          THEN LET applied == add_layer(plan, layer)
                   upd == update_relations(applied)
                   calls == <<SetStatus(maintenance),
                              Call("add_layer", 0, container_name)>> \o upd.calls
               IN IF upd.exc # "none"
                  THEN Outcome(maintenance, applied, upd.provided, calls, upd.probes, upd.exc)
                  ELSE Outcome(ActiveStatus, applied, upd.provided,
                               calls \o <<SetStatus(ActiveStatus)>>, upd.probes, "none")
          ELSE Outcome(ActiveStatus, plan, provided,
                       <<SetStatus(maintenance), SetStatus(ActiveStatus)>>, <<>>, "none")
  ELSE LET waiting == WaitingStatus("Waiting for container to be ready...")
       IN Outcome(waiting, plan, provided, <<SetStatus(waiting), Defer>>, <<>>, "none")

\* Mutant: the status is left at Maintenance when the configuration is done.
configure_charm_noactive ==
  IF can_connect
  THEN LET maintenance == MaintenanceStatus("Configuring pod")
           layer == pebble_layer
       IN IF plan_differs(layer)
          THEN LET applied == add_layer(plan, layer)
                   upd == update_relations(applied)
                   calls == <<SetStatus(maintenance),
                              Call("add_layer", 0, container_name),
                              Call("restart", 0, service_name)>> \o upd.calls
               IN Outcome(maintenance, applied, upd.provided, calls, upd.probes, upd.exc)
          ELSE Outcome(maintenance, plan, provided, <<SetStatus(maintenance)>>, <<>>, "none")
  ELSE LET waiting == WaitingStatus("Waiting for container to be ready...")
       IN Outcome(waiting, plan, provided, <<SetStatus(waiting), Defer>>, <<>>, "none")

\* Mutant: the service is restarted whether or not a layer was added.
configure_charm_restart_always ==
  IF can_connect
  THEN LET maintenance == MaintenanceStatus("Configuring pod")
           layer == pebble_layer
       IN IF plan_differs(layer)
          THEN LET applied == add_layer(plan, layer)
                   upd == update_relations(applied)
                   calls == <<SetStatus(maintenance),
                              Call("add_layer", 0, container_name),
                              Call("restart", 0, service_name)>> \o upd.calls
               IN IF upd.exc # "none"
                  THEN Outcome(maintenance, applied, upd.provided, calls, upd.probes, upd.exc)
                  ELSE Outcome(ActiveStatus, applied, upd.provided,
                               calls \o <<SetStatus(ActiveStatus)>>, upd.probes, "none")
          ELSE Outcome(ActiveStatus, plan, provided,
                       <<SetStatus(maintenance), Call("restart", 0, service_name),
                         SetStatus(ActiveStatus)>>, <<>>, "none")
  ELSE LET waiting == WaitingStatus("Waiting for container to be ready...")
       IN Outcome(waiting, plan, provided, <<SetStatus(waiting), Defer>>, <<>>, "none")

\* Mutant: the service is restarted after the relations are updated.
configure_charm_restart_last ==
  IF can_connect
  THEN LET maintenance == MaintenanceStatus("Configuring pod")
           layer == pebble_layer
       IN IF plan_differs(layer)
          THEN LET applied == add_layer(plan, layer)
                   upd == update_relations(applied)
                   calls == <<SetStatus(maintenance),
                              Call("add_layer", 0, container_name)>> \o upd.calls
               IN IF upd.exc # "none"
                  THEN Outcome(maintenance, applied, upd.provided, calls, upd.probes, upd.exc)
                  ELSE Outcome(ActiveStatus, applied, upd.provided,
                               calls \o <<Call("restart", 0, service_name),
                                          SetStatus(ActiveStatus)>>, upd.probes, "none")
          ELSE Outcome(ActiveStatus, plan, provided,
                       <<SetStatus(maintenance), SetStatus(ActiveStatus)>>, <<>>, "none")
  ELSE LET waiting == WaitingStatus("Waiting for container to be ready...")
       IN Outcome(waiting, plan, provided, <<SetStatus(waiting), Defer>>, <<>>, "none")

\* Mutant: the relations are updated whether or not a layer was added.
configure_charm_always_updates ==
  IF can_connect
  THEN LET maintenance == MaintenanceStatus("Configuring pod")
           layer == pebble_layer
           differs == plan_differs(layer)
           applied == IF differs THEN add_layer(plan, layer) ELSE plan
           upd == update_relations(applied)
           calls == <<SetStatus(maintenance)>>
                    \o (IF differs THEN <<Call("add_layer", 0, container_name),
                                          Call("restart", 0, service_name)>>
                                   ELSE <<>>)
                    \o upd.calls
       IN IF upd.exc # "none"
          THEN Outcome(maintenance, applied, upd.provided, calls, upd.probes, upd.exc)
          ELSE Outcome(ActiveStatus, applied, upd.provided,
                       calls \o <<SetStatus(ActiveStatus)>>, upd.probes, "none")
  ELSE LET waiting == WaitingStatus("Waiting for container to be ready...")
       IN Outcome(waiting, plan, provided, <<SetStatus(waiting), Defer>>, <<>>, "none")

configure_charm ==
  IF can_connect
  THEN LET maintenance == MaintenanceStatus("Configuring pod")
           layer == pebble_layer
       IN IF plan_differs(layer)
          THEN LET applied == add_layer(plan, layer)
                   upd == update_relations(applied)
                   calls == <<SetStatus(maintenance),
                              Call("add_layer", 0, container_name),
                              Call("restart", 0, service_name)>> \o upd.calls
               IN IF upd.exc # "none"
                  THEN Outcome(maintenance, applied, upd.provided, calls, upd.probes, upd.exc)
                  ELSE Outcome(ActiveStatus, applied, upd.provided,
                               calls \o <<SetStatus(ActiveStatus)>>, upd.probes, "none")
          ELSE Outcome(ActiveStatus, plan, provided,
                       <<SetStatus(maintenance), SetStatus(ActiveStatus)>>, <<>>, "none")
  ELSE LET waiting == WaitingStatus("Waiting for container to be ready...")
       IN Outcome(waiting, plan, provided, <<SetStatus(waiting), Defer>>, <<>>, "none")

\* Mutant: a unit that is already Active takes its workload as configured.
configure_workload_once ==
  IF status = ActiveStatus
  THEN Outcome(status, plan, provided, <<>>, <<>>, "none")
  ELSE LET created == relations_created IN
       IF ~created.ret
       THEN Outcome(created.status, plan, provided, created.calls \o <<Defer>>, <<>>, "none")
       ELSE LET ready == relations_ready IN
            IF ~ready.ret
            THEN Outcome(ready.status, plan, provided, ready.calls \o <<Defer>>, <<>>, "none")
            ELSE configure_charm

\* Mutant: a relation that is not ready sets the status, and the event is not deferred.
configure_workload_drops ==
  LET created == relations_created IN
  IF ~created.ret
  THEN Outcome(created.status, plan, provided, created.calls \o <<Defer>>, <<>>, "none")
  ELSE LET ready == relations_ready IN
       IF ~ready.ret
       THEN Outcome(ready.status, plan, provided, ready.calls, <<>>, "none")
       ELSE configure_charm

\* Mutant: the relations are asked whether they are ready before whether they exist.
configure_workload_ready_first ==
  LET ready == relations_ready IN
  IF ~ready.ret
  THEN Outcome(ready.status, plan, provided, ready.calls \o <<Defer>>, <<>>, "none")
  ELSE LET created == relations_created IN
       IF ~created.ret
       THEN Outcome(created.status, plan, provided, created.calls \o <<Defer>>, <<>>, "none")
       ELSE configure_charm

\* Mutant: the return after the deferral of a not-ready relation is missing.
configure_workload_fallthrough ==
  LET created == relations_created IN
  IF ~created.ret
  THEN Outcome(created.status, plan, provided, created.calls \o <<Defer>>, <<>>, "none")
  ELSE LET ready == relations_ready IN
       IF ~ready.ret
       THEN LET out == configure_charm
            IN Outcome(out.status, out.plan, out.provided,
                       ready.calls \o <<Defer>> \o out.calls, out.probes, out.exc)
       ELSE configure_charm

configure_workload ==
  LET created == relations_created IN
  IF ~created.ret
  THEN Outcome(created.status, plan, provided, created.calls \o <<Defer>>, <<>>, "none")
  ELSE LET ready == relations_ready IN
       IF ~ready.ret
       THEN Outcome(ready.status, plan, provided, ready.calls \o <<Defer>>, <<>>, "none")
       ELSE configure_charm

\* The calls of _configure_charm to the container that change it, and the error of
\* ops.pebble each raises when the container fails it.
PebbleFaults == {"add_layer", "restart"}
PebbleError(f) == IF f = "add_layer" THEN "APIError" ELSE "ChangeError"

\* Mutant: an error of the container is caught, and the event is deferred.
configure_charm_failing_caught(f) ==
  IF can_connect /\ plan_differs(pebble_layer)
  THEN LET maintenance == MaintenanceStatus("Configuring pod")
           waiting == WaitingStatus("Waiting for container to be ready...")
           layer == pebble_layer
       IN IF f = "add_layer"
          THEN Outcome(waiting, plan, provided,
                       <<SetStatus(maintenance), Call("add_layer", 0, container_name),
                         SetStatus(waiting), Defer>>, <<>>, "none")
          ELSE Outcome(waiting, add_layer(plan, layer), provided,
                       <<SetStatus(maintenance), Call("add_layer", 0, container_name),
                         Call("restart", 0, service_name), SetStatus(waiting), Defer>>,
                       <<>>, "none")
  ELSE configure_charm

\* _configure_charm on a container that fails call f: nothing catches the error, and
\* the statements after the call are not run.  Where the handler does not make the
\* call it runs as configure_charm.
configure_charm_failing(f) ==
  IF can_connect /\ plan_differs(pebble_layer)
  THEN LET maintenance == MaintenanceStatus("Configuring pod")
           layer == pebble_layer
       IN IF f = "add_layer"
          THEN Outcome(maintenance, plan, provided,
                       <<SetStatus(maintenance), Call("add_layer", 0, container_name)>>,
                       <<>>, PebbleError(f))
          ELSE Outcome(maintenance, add_layer(plan, layer), provided,
                       <<SetStatus(maintenance), Call("add_layer", 0, container_name),
                         Call("restart", 0, service_name)>>,
                       <<>>, PebbleError(f))
  ELSE configure_charm

\* _configure_workload on a container that fails call f.
configure_workload_failing(f) ==
  LET created == relations_created IN
  IF ~created.ret
  THEN Outcome(created.status, plan, provided, created.calls \o <<Defer>>, <<>>, "none")
  ELSE LET ready == relations_ready IN
       IF ~ready.ret
       THEN Outcome(ready.status, plan, provided, ready.calls \o <<Defer>>, <<>>, "none")
       ELSE configure_charm_failing(f)

\* Mutant: the event is deferred whether or not the service is running.
on_relation_joined_redefers(r) ==
  IF ~leader
  THEN Outcome(status, plan, provided, <<>>, <<>>, "none")
  ELSE LET is_active == service_is_running(plan) IN
       IF is_active.exc # "none"
       THEN Outcome(status, plan, provided, <<>>, <<is_active>>, is_active.exc)
       ELSE LET bags == [provided EXCEPT ![r] = update_relation_active_status(@, is_active.ret)]
                write == Call("relation_write", r, Str(is_active.ret))
            IN Outcome(status, plan, bags, <<write, Defer>>, <<is_active>>, "none")

\* Mutant: the handler does not ask whether the unit is the leader.
on_relation_joined_anyunit(r) ==
  LET is_active == service_is_running(plan) IN
  IF is_active.exc # "none"
  THEN Outcome(status, plan, provided, <<>>, <<is_active>>, is_active.exc)
  ELSE LET bags == [provided EXCEPT ![r] = update_relation_active_status(@, is_active.ret)]
           write == Call("relation_write", r, Str(is_active.ret))
           again == service_is_running(plan)
       IN IF again.exc # "none"
          THEN Outcome(status, plan, bags, <<write>>, <<is_active, again>>, again.exc)
          ELSE IF ~again.ret
          THEN Outcome(status, plan, bags, <<write, Defer>>, <<is_active, again>>, "none")
          ELSE Outcome(status, plan, bags, <<write>>, <<is_active, again>>, "none")

\* event.relation is the provided relation r.
on_relation_joined(r) ==
  IF ~leader
  THEN Outcome(status, plan, provided, <<>>, <<>>, "none")
  ELSE LET is_active == service_is_running(plan) IN
       IF is_active.exc # "none"
       THEN Outcome(status, plan, provided, <<>>, <<is_active>>, is_active.exc)
       ELSE LET bags == [provided EXCEPT ![r] = update_relation_active_status(@, is_active.ret)]
                write == Call("relation_write", r, Str(is_active.ret))
                again == service_is_running(plan)
            IN IF again.exc # "none"
               THEN Outcome(status, plan, bags, <<write>>, <<is_active, again>>, again.exc)
               ELSE IF ~again.ret
               THEN Outcome(status, plan, bags, <<write, Defer>>, <<is_active, again>>, "none")
               ELSE Outcome(status, plan, bags, <<write>>, <<is_active, again>>, "none")

(***************************************************************************)
(* The dependency-bearing variant (orc8r_base_db): the same handlers, with *)
(* the datastore relation checked first and its connection parameters in   *)
(* the environment of the service.  It is instantiated without required    *)
(* relations.                                                              *)
(***************************************************************************)

DB_NAME == "magma_dev"
DB_RELATION_NAME == "db"

\* What the datastore publishes once the database is there.
DATABASE_DATABAG ==
  [k \in {"database", "endpoints", "username", "password"} |->
     CASE k = "database" -> DB_NAME
       [] k = "endpoints" -> "123.456.679.012:1234"
       [] k = "username" -> "test_db_user"
       [] k = "password" -> "aaaBBBcccDDDeee"]

db_relation_created == db.exists

\* The connection parameters can be read from the relation.
db_relation_ready ==
  db.exists /\ {"endpoints", "username", "password"} \subseteq DOMAIN db.data

\* The connection string and the driver/dialect pair.
db_environment_variables ==
  [k \in {"DATABASE_SOURCE", "SQL_DRIVER", "SQL_DIALECT"} |->
     CASE k = "DATABASE_SOURCE" ->
            "dbname=" \o DB_NAME \o " user=" \o db.data["username"]
            \o " password=" \o db.data["password"] \o " host=" \o db.data["endpoints"]
            \o " sslmode=disable"
       [] k = "SQL_DRIVER" -> "postgres"
       [] k = "SQL_DIALECT" -> "psql"]

pebble_layer_db ==
  [pebble_layer EXCEPT !.services[service_name].environment =
     DictUpdate(db_environment_variables, environment_variables)]

configure_charm_db ==
  IF can_connect
  THEN LET maintenance == MaintenanceStatus("Configuring pod")
           layer == pebble_layer_db
       IN IF plan_differs(layer)
          THEN LET applied == add_layer(plan, layer)
                   upd == update_relations(applied)
                   calls == <<SetStatus(maintenance),
                              Call("add_layer", 0, container_name),
                              Call("restart", 0, service_name)>> \o upd.calls
               IN IF upd.exc # "none"
                  THEN Outcome(maintenance, applied, upd.provided, calls, upd.probes, upd.exc)
                  ELSE Outcome(ActiveStatus, applied, upd.provided,
                               calls \o <<SetStatus(ActiveStatus)>>, upd.probes, "none")
          ELSE Outcome(ActiveStatus, plan, provided,
                       <<SetStatus(maintenance), SetStatus(ActiveStatus)>>, <<>>, "none")
  ELSE LET waiting == WaitingStatus("Waiting for container to be ready...")
       IN Outcome(waiting, plan, provided, <<SetStatus(waiting), Defer>>, <<>>, "none")

\* Mutant: the container is asked whether it answers before the datastore
\* relation is looked at.
configure_workload_db_host_first ==
  IF ~can_connect
  THEN LET waiting == WaitingStatus("Waiting for container to be ready...")
       IN Outcome(waiting, plan, provided, <<SetStatus(waiting), Defer>>, <<>>, "none")
  ELSE IF ~db_relation_created
  THEN LET blocked == BlockedStatus("Waiting for " \o DB_RELATION_NAME \o " relation to be created")
       IN Outcome(blocked, plan, provided, <<SetStatus(blocked), Defer>>, <<>>, "none")
  ELSE IF ~db_relation_ready
  THEN LET waiting == WaitingStatus("Waiting for " \o DB_RELATION_NAME \o " relation to be ready")
       IN Outcome(waiting, plan, provided, <<SetStatus(waiting), Defer>>, <<>>, "none")
  ELSE configure_charm_db

configure_workload_db ==
  IF ~db_relation_created
  THEN LET blocked == BlockedStatus("Waiting for " \o DB_RELATION_NAME \o " relation to be created")
       IN Outcome(blocked, plan, provided, <<SetStatus(blocked), Defer>>, <<>>, "none")
  ELSE IF ~db_relation_ready
  THEN LET waiting == WaitingStatus("Waiting for " \o DB_RELATION_NAME \o " relation to be ready")
       IN Outcome(waiting, plan, provided, <<SetStatus(waiting), Defer>>, <<>>, "none")
  ELSE configure_charm_db

HandlerDb(e) ==
  IF e.kind \in LifecycleKinds THEN configure_workload_db ELSE on_relation_joined(e.rel)

\* The handler the framework runs for event e.
Handler(e) ==
  IF e.kind \in LifecycleKinds THEN configure_workload ELSE on_relation_joined(e.rel)

(***************************************************************************)
(* The record of a handler run                                             *)
(***************************************************************************)

Snapshot ==
  [relations |-> relations, can_connect |-> can_connect, plan |-> plan, leader |-> leader,
   provided |-> provided, status |-> status, deferred |-> deferred]

Count(calls, op) == Len(SelectSeq(calls, LAMBDA c : c.op = op))

NoRelation == [exists |-> FALSE, units |-> <<>>]
NoProvided == [exists |-> FALSE, data |-> EmptyDict]
EmptyPlan == [n \in {} |-> 0]

NoHandling ==
  [kind |-> "none", rel |-> 0,
   pre |-> [relations |-> [n \in RequiredNames |-> NoRelation], can_connect |-> FALSE,
            plan |-> EmptyPlan, leader |-> FALSE, provided |-> [r \in RelIds |-> NoProvided],
            status |-> MaintenanceStatus(""), deferred |-> {}],
   calls |-> <<>>, probes |-> <<>>, exc |-> "none", fault |-> "none"]

(***************************************************************************)
(* Initial states: the charm has just been constructed.  No relation is    *)
(* established yet; the container may hold any plan (an upgraded charm     *)
(* finds the plan its predecessor left).                                   *)
(***************************************************************************)

\* An entry for the workload's service that differs from the one the library builds.
StaleService ==
  [override |-> "replace", summary |-> service_name, startup |-> "enabled",
   command |-> "/var/opt/magma/bin/dummy -v=1", environment |-> EmptyDict]
\* A service another layer of the container defines.
SidecarService ==
  [override |-> "replace", summary |-> "sidecar", startup |-> "enabled",
   command |-> "/bin/sidecar", environment |-> EmptyDict]

InitialPlans ==
  { DictUpdate(own, other) :
      own \in {EmptyPlan, pebble_layer.services, [n \in {service_name} |-> StaleService]},
      other \in {EmptyPlan, [n \in {"sidecar"} |-> SidecarService]} }

NoDb == [exists |-> FALSE, data |-> EmptyDict]

InitWith(configs) ==
  /\ config \in configs
  /\ db = NoDb
  /\ relations = [n \in RequiredNames |-> NoRelation]
  /\ can_connect \in BOOLEAN
  /\ plan \in InitialPlans
  /\ leader \in BOOLEAN
  /\ provided = [r \in RelIds |-> NoProvided]
  /\ status = MaintenanceStatus("")
  /\ deferred = {}
  /\ last = NoHandling
  /\ streak = <<>>

(***************************************************************************)
(* The framework dispatches an event to its handler                        *)
(***************************************************************************)

LastTwo(s) == IF Len(s) > 2 THEN Tail(s) ELSE s

\* The framework runs a handler for event e, which leaves outcome out.
DispatchWith(out, e, redelivered) ==
  LET kept == IF redelivered THEN deferred \ {e} ELSE deferred
  IN /\ status' = out.status
     /\ plan' = out.plan
     /\ provided' = out.provided
     /\ deferred' = IF Count(out.calls, "defer") > 0 THEN kept \cup {e} ELSE kept
     /\ last' = [kind |-> e.kind, rel |-> e.rel, pre |-> Snapshot,
                 calls |-> out.calls, probes |-> out.probes, exc |-> out.exc,
                 fault |-> "none"]
     /\ streak' = IF e.kind \in LifecycleKinds
                  THEN LastTwo(Append(streak, [plan |-> plan,
                                               applies |-> Count(out.calls, "add_layer")]))
                  ELSE <<>>
     /\ UNCHANGED <<config, db, relations, can_connect, leader>>

Dispatch(e, redelivered) == DispatchWith(Handler(e), e, redelivered)

PebbleReady == Dispatch(Event("pebble_ready", 0), FALSE)

UpgradeCharm == Dispatch(Event("upgrade_charm", 0), FALSE)

RelationJoined ==
  \E r \in RelIds : provided[r].exists /\ Dispatch(Event("relation_joined", r), FALSE)

Redeliver == \E e \in deferred : Dispatch(e, TRUE)

\* The container fails a call the lifecycle handler makes.  The error leaves the
\* handler and the dispatch: the framework commits nothing, so it holds the events
\* it held (a redelivered event stays held, a new one is not added).
LifecycleFails ==
  \E k \in LifecycleKinds, f \in PebbleFaults :
    LET out == configure_workload_failing(f) IN
    /\ can_connect /\ plan_differs(pebble_layer)
    /\ Count(out.calls, f) > 0
    /\ status' = out.status
    /\ plan' = out.plan
    /\ provided' = out.provided
    /\ deferred' = deferred
    /\ last' = [kind |-> k, rel |-> 0, pre |-> Snapshot,
                calls |-> out.calls, probes |-> out.probes, exc |-> out.exc, fault |-> f]
    /\ streak' = LastTwo(Append(streak, [plan |-> plan,
                                         applies |-> Count(out.calls, "add_layer")]))
    /\ UNCHANGED <<config, db, relations, can_connect, leader>>

DbPebbleReady == DispatchWith(configure_workload_db, Event("pebble_ready", 0), FALSE)

DbUpgradeCharm == DispatchWith(configure_workload_db, Event("upgrade_charm", 0), FALSE)

DbRedeliver == \E e \in deferred : DispatchWith(HandlerDb(e), e, TRUE)

(***************************************************************************)
(* The environment                                                         *)
(***************************************************************************)

Quiet == last' = NoHandling /\ streak' = <<>>

\* A required relation is established.
RelationCreated ==
  \E n \in RequiredNames :
    /\ \E i \in 1..Len(config.required_relations) : config.required_relations[i] = n
    /\ ~relations[n].exists
    /\ relations' = [relations EXCEPT ![n] = [exists |-> TRUE, units |-> <<>>]]
    /\ Quiet
    /\ UNCHANGED <<config, db, can_connect, plan, leader, provided, status, deferred>>

\* A remote unit joins a required relation; its data bag is empty.  The units of a
\* relation are a set: where the new unit comes in its iteration is not fixed.
RemoteUnitJoins ==
  \E n \in RequiredNames, front \in BOOLEAN :
    /\ relations[n].exists
    /\ Len(relations[n].units) < MaxUnits
    /\ relations' = [relations EXCEPT ![n].units =
                       IF front THEN <<EmptyDict>> \o @ ELSE Append(@, EmptyDict)]
    /\ Quiet
    /\ UNCHANGED <<config, db, can_connect, plan, leader, provided, status, deferred>>

\* A remote unit publishes its service status.
RemoteUnitWrites ==
  \E n \in RequiredNames, v \in {"True", "False"} :
    \E i \in 1..Len(relations[n].units) :
      /\ relations' = [relations EXCEPT ![n].units[i] = DictUpdate(@, [k \in {"active"} |-> v])]
      /\ relations' # relations
      /\ Quiet
      /\ UNCHANGED <<config, db, can_connect, plan, leader, provided, status, deferred>>

\* A remote unit publishes under "active" something that is not a str(bool).
OtherValues == {"true", ""}
RemoteUnitWritesOther ==
  \E n \in RequiredNames, v \in OtherValues :
    \E i \in 1..Len(relations[n].units) :
      /\ relations' = [relations EXCEPT ![n].units[i] = DictUpdate(@, [k \in {"active"} |-> v])]
      /\ relations' # relations
      /\ Quiet
      /\ UNCHANGED <<config, db, can_connect, plan, leader, provided, status, deferred>>

\* A required relation is removed.
RelationBroken ==
  \E n \in RequiredNames :
    /\ relations[n].exists
    /\ relations' = [relations EXCEPT ![n] = NoRelation]
    /\ Quiet
    /\ UNCHANGED <<config, db, can_connect, plan, leader, provided, status, deferred>>

\* The datastore relation is established; the datastore has published nothing yet.
DbRelationCreated ==
  /\ ~db.exists
  /\ db' = [exists |-> TRUE, data |-> EmptyDict]
  /\ Quiet
  /\ UNCHANGED <<config, relations, can_connect, plan, leader, provided, status, deferred>>

\* The datastore publishes the connection parameters.
DbRelationChanged ==
  /\ db.exists
  /\ db.data # DATABASE_DATABAG
  /\ db' = [db EXCEPT !.data = DATABASE_DATABAG]
  /\ Quiet
  /\ UNCHANGED <<config, relations, can_connect, plan, leader, provided, status, deferred>>

\* The datastore relation is removed.
DbRelationBroken ==
  /\ db.exists
  /\ db' = NoDb
  /\ Quiet
  /\ UNCHANGED <<config, relations, can_connect, plan, leader, provided, status, deferred>>

\* The container starts or stops answering.
ContainerConnectivity ==
  /\ can_connect' = ~can_connect
  /\ Quiet
  /\ UNCHANGED <<config, db, relations, plan, leader, provided, status, deferred>>

\* The container is replaced: the new one holds no layer.
ContainerReplaced ==
  /\ plan # EmptyPlan
  /\ plan' = EmptyPlan
  /\ can_connect' = FALSE
  /\ Quiet
  /\ UNCHANGED <<config, db, relations, leader, provided, status, deferred>>

\* Leadership moves to or away from this unit.
LeaderChanged ==
  /\ leader' = ~leader
  /\ Quiet
  /\ UNCHANGED <<config, db, relations, can_connect, plan, provided, status, deferred>>

\* A relation is established on the provided endpoint; the data bag of this unit
\* holds what the controller puts there.
ProvidedRelationCreated ==
  \E r \in RelIds :
    /\ ~provided[r].exists
    /\ \A q \in RelIds : q < r => provided[q].exists
    /\ provided' = [provided EXCEPT ![r] =
                      [exists |-> TRUE, data |-> [k \in {"ingress-address"} |-> "10.1.0.7"]]]
    /\ Quiet
    /\ UNCHANGED <<config, db, relations, can_connect, plan, leader, status, deferred>>

(***************************************************************************)
(* Specifications.  The state space of the whole is the product of its     *)
(* parts; each specification keeps the part of the environment that the    *)
(* behaviour under study reads.                                            *)
(***************************************************************************)

\* The lifecycle handler against the required relations and the container.
InitDeps == InitWith(DepsConfigs)

NextDeps ==
  \/ PebbleReady
  \/ UpgradeCharm
  \/ Redeliver
  \/ RelationCreated
  \/ RemoteUnitJoins
  \/ RemoteUnitWrites
  \/ RelationBroken
  \/ ContainerConnectivity
  \/ ContainerReplaced

SpecDeps == InitDeps /\ [][NextDeps]_vars

\* Both handlers against the provided relations, the container and leadership.
InitJoin == InitWith(PlainConfigs)

NextJoin ==
  \/ PebbleReady
  \/ UpgradeCharm
  \/ RelationJoined
  \/ Redeliver
  \/ ContainerConnectivity
  \/ ContainerReplaced
  \/ LeaderChanged
  \/ ProvidedRelationCreated

SpecJoin == InitJoin /\ [][NextJoin]_vars

\* The lifecycle handler under every configuration of the environment variables.
InitEnv == InitWith(EnvConfigs) /\ leader = FALSE

NextEnv ==
  \/ PebbleReady
  \/ UpgradeCharm
  \/ Redeliver
  \/ ContainerConnectivity

SpecEnv == InitEnv /\ [][NextEnv]_vars

\* Both handlers against a container that can fail the calls that change it.
InitFault == InitWith(PlainConfigs)

NextFault ==
  \/ PebbleReady
  \/ UpgradeCharm
  \/ LifecycleFails
  \/ RelationJoined
  \/ Redeliver
  \/ ContainerConnectivity
  \/ ContainerReplaced
  \/ LeaderChanged
  \/ ProvidedRelationCreated

SpecFault == InitFault /\ [][NextFault]_vars

\* The leader's handlers against a required relation, the provided relations and
\* the container together.
InitMix == InitWith({c \in DepsConfigs : Len(c.required_relations) = 1}) /\ leader = TRUE

NextMix ==
  \/ PebbleReady
  \/ UpgradeCharm
  \/ RelationJoined
  \/ Redeliver
  \/ RelationCreated
  \/ RemoteUnitJoins
  \/ RemoteUnitWrites
  \/ RelationBroken
  \/ ContainerConnectivity
  \/ ProvidedRelationCreated

SpecMix == InitMix /\ [][NextMix]_vars

\* The lifecycle handler against one required relation whose remote units publish
\* any value.
InitReady == InitWith({c \in DepsConfigs : Len(c.required_relations) = 1})

NextReady ==
  \/ PebbleReady
  \/ UpgradeCharm
  \/ Redeliver
  \/ RelationCreated
  \/ RemoteUnitJoins
  \/ RemoteUnitWrites
  \/ RemoteUnitWritesOther
  \/ RelationBroken

SpecReady == InitReady /\ [][NextReady]_vars

\* The lifecycle handler of the dependency-bearing variant against the datastore
\* relation and the container.
InitDb == InitWith(PlainConfigs)

NextDb ==
  \/ DbPebbleReady
  \/ DbUpgradeCharm
  \/ DbRedeliver
  \/ DbRelationCreated
  \/ DbRelationChanged
  \/ DbRelationBroken
  \/ ContainerConnectivity
  \/ ContainerReplaced

SpecDb == InitDb /\ [][NextDb]_vars

\* The framework runs every deferred event again: an event that stays deferred is
\* redelivered at some later dispatch.
LifecycleEvents == {Event(k, 0) : k \in LifecycleKinds}
RedeliverEvent(e) == e \in deferred /\ Dispatch(e, TRUE)
FairRedelivery == \A e \in LifecycleEvents : WF_vars(RedeliverEvent(e))

\* The lifecycle handler on a unit that is not the leader, against one required
\* relation and the container, with fair redelivery.
InitLive == InitWith({c \in DepsConfigs : Len(c.required_relations) = 1}) /\ leader = FALSE

NextLive ==
  \/ PebbleReady
  \/ UpgradeCharm
  \/ Redeliver
  \/ RelationCreated
  \/ RemoteUnitJoins
  \/ RemoteUnitWrites
  \/ RelationBroken
  \/ ContainerConnectivity
  \/ ContainerReplaced

SpecLive == InitLive /\ [][NextLive]_vars /\ FairRedelivery

\* Both handlers on a unit that stays the leader, with fair redelivery of the
\* relation-joined events.
JoinedEvents == {Event("relation_joined", r) : r \in RelIds}
FairJoinedRedelivery == \A e \in JoinedEvents : WF_vars(RedeliverEvent(e))

InitJoinLive == InitWith(PlainConfigs) /\ leader = TRUE

NextJoinLive ==
  \/ PebbleReady
  \/ UpgradeCharm
  \/ RelationJoined
  \/ Redeliver
  \/ ContainerConnectivity
  \/ ContainerReplaced
  \/ ProvidedRelationCreated

SpecJoinLive == InitJoinLive /\ [][NextJoinLive]_vars /\ FairJoinedRedelivery

\* The whole: every configuration above, every event, every change of the environment.
Init == InitWith(PlainConfigs \cup DepsConfigs)

Next == NextDeps \/ NextJoin

Spec == Init /\ [][Next]_vars

(***************************************************************************)
(* Properties                                                              *)
(***************************************************************************)

\* The last handler run was the lifecycle handler (pebble-ready or upgrade-charm).
LifecycleHandled == last.kind \in LifecycleKinds
JoinedHandled == last.kind = "relation_joined"
LastEvent == Event(last.kind, last.rel)

\* The handler deferred its event (once), and the framework holds it for redelivery.
DeferredOnce == Count(last.calls, "defer") = 1 /\ LastEvent \in deferred
\* The handler did not defer its event: the framework holds nothing it did not hold.
NotDeferred == Count(last.calls, "defer") = 0 /\ deferred \subseteq last.pre.deferred

Required == {config.required_relations[i] : i \in 1..Len(config.required_relations)}
Position(n) == CHOOSE i \in 1..Len(config.required_relations) : config.required_relations[i] = n

\* The names of set M, each once, in the order of the required-relations list.
InListOrder(M) ==
  CHOOSE q \in [1..Cardinality(M) -> M] :
    /\ \A n \in M : \E i \in 1..Cardinality(M) : q[i] = n
    /\ \A i, j \in 1..Cardinality(M) : i < j => Position(q[i]) < Position(q[j])

\* The required relations that did not exist when the last handler ran.
Missing == {n \in Required : ~last.pre.relations[n].exists}
\* A remote unit of relation n says "active": "True" (the first unit in iteration order).
SaysActive(n) ==
  LET rel == last.pre.relations[n] IN
  /\ rel.exists
  /\ Len(rel.units) > 0
  /\ "active" \in DOMAIN rel.units[1]
  /\ rel.units[1]["active"] = "True"
NotReady == {n \in Required : ~SaysActive(n)}

\* C1: when a lifecycle event is handled while a non-empty set M of required
\* relations does not exist, the event is deferred and the status is Blocked with
\* the message "Waiting for relation(s) to be created: " and the names of M, and
\* only those, joined by ", " in the order of the required-relations list.
C1_MissingRelationsBlocked ==
  (LifecycleHandled /\ Missing # {}) =>
    /\ DeferredOnce
    /\ status = BlockedStatus("Waiting for relation(s) to be created: "
                              \o Join(InListOrder(Missing), ", "))

\* A handling with the second required relation missing and the first created.
C1_Witness ==
  /\ LifecycleHandled
  /\ Missing = {"magma-orc8r-certifier"}
  /\ status.message = "Waiting for relation(s) to be created: magma-orc8r-certifier"

\* C2: when a lifecycle event is handled while every required relation exists and a
\* non-empty set N of them is not ready, the event is deferred and the status is
\* Waiting with the message "Waiting for relation(s) to be ready: " and the names of
\* N, joined by ", " in the order of the required-relations list.
C2_NotReadyRelationsWaiting ==
  (LifecycleHandled /\ Missing = {} /\ NotReady # {}) =>
    /\ DeferredOnce
    /\ status = WaitingStatus("Waiting for relation(s) to be ready: "
                              \o Join(InListOrder(NotReady), ", "))

\* A handling with both relations created, the first ready and the second saying "False".
C2_Witness ==
  /\ LifecycleHandled
  /\ Missing = {}
  /\ NotReady = {"magma-orc8r-certifier"}
  /\ last.pre.relations["magma-orc8r-certifier"].units = <<[active |-> "False"]>>
  /\ status.message = "Waiting for relation(s) to be ready: magma-orc8r-certifier"

\* C3 as stated: whenever the container cannot be reached while a lifecycle event
\* is handled, the status is Waiting and the event is deferred, whatever the state
\* of the required relations.
C3_UnreachableAlwaysWaiting ==
  (LifecycleHandled /\ ~last.pre.can_connect) =>
    (status.name = "waiting" /\ DeferredOnce)

\* C3, amended: whenever the container cannot be reached while a lifecycle event is
\* handled, the event is deferred, whatever the state of the required relations;
\* the status is Blocked if a required relation is missing and Waiting otherwise
\* (naming the relations that are not ready if there are any, and the container if
\* all are ready).
C3_UnreachableDeferred ==
  (LifecycleHandled /\ ~last.pre.can_connect) =>
    /\ DeferredOnce
    /\ status.name = (IF Missing # {} THEN "blocked" ELSE "waiting")
    /\ (NotReady = {}) = (status = WaitingStatus("Waiting for container to be ready..."))

\* A handling with every required relation ready and the container unreachable.
C3_Witness ==
  /\ LifecycleHandled
  /\ ~last.pre.can_connect
  /\ Required # {}
  /\ NotReady = {}
  /\ status = WaitingStatus("Waiting for container to be ready...")
  /\ DeferredOnce

\* C4: when a lifecycle event is handled with every required relation created and
\* ready, the container reachable and no entry for the service in its plan, the
\* handler adds the layer once, restarts the service once, does not defer the event
\* and leaves the status Active.
C4_FirstConfiguration ==
  (/\ LifecycleHandled
   /\ NotReady = {}
   /\ last.pre.can_connect
   /\ service_name \notin DOMAIN last.pre.plan) =>
    /\ Count(last.calls, "add_layer") = 1
    /\ Count(last.calls, "restart") = 1
    /\ NotDeferred
    /\ status = ActiveStatus

\* A handling with two required relations ready that found an empty plan.
C4_Witness ==
  /\ LifecycleHandled
  /\ Cardinality(Required) = 2
  /\ NotReady = {}
  /\ last.pre.can_connect
  /\ last.pre.plan = EmptyPlan
  /\ service_name \in DOMAIN plan
  /\ status = ActiveStatus

\* Two lifecycle handlings ran back to back, with every required relation ready
\* and the container reachable.
HandledTwice == Len(streak) = 2 /\ LifecycleHandled /\ NotReady = {} /\ can_connect

\* C5 as stated: from any plan, two lifecycle handlings with nothing in between add
\* one layer in total, the second adds none, and the status is Active after both.
C5_ExactlyOneApply ==
  HandledTwice =>
    /\ streak[1].applies + streak[2].applies = 1
    /\ streak[2].applies = 0
    /\ last.pre.status = ActiveStatus
    /\ status = ActiveStatus

\* C5, amended: with every required relation ready and the container reachable, two
\* lifecycle handlings with nothing in between leave the status Active after each.
\* If the plan holds only services of the layer, the second handling adds nothing
\* and the first adds the layer once exactly when the plan differed from the layer's
\* services (none or one in total).  If the plan holds another service, the plan's services
\* never equal the layer's and each handling adds the layer (two in total).
C5_ApplyTwice ==
  HandledTwice =>
    LET found == streak[1].plan
        others == DOMAIN found \ {service_name}
    IN /\ streak[1].applies =
            (IF others # {} \/ found # pebble_layer.services THEN 1 ELSE 0)
       /\ streak[2].applies = (IF others # {} THEN 1 ELSE 0)
       /\ last.pre.status = ActiveStatus
       /\ status = ActiveStatus

\* Two handlings from a plan with a stale entry for the service: one layer added.
C5_Witness ==
  /\ HandledTwice
  /\ streak[1].plan = [n \in {service_name} |-> StaleService]
  /\ streak[1].applies = 1
  /\ streak[2].applies = 0

\* C6: the environment of the service the handler puts in the plan has as keys the
\* additional variables' keys and the three default keys; each default key has its
\* default value (the container name, "k8s", the model's name) even when an
\* additional variable has the same key, and every other key has the value the
\* constructor was given.
C6_EnvironmentDefaultsWin ==
  (LifecycleHandled /\ Count(last.calls, "add_layer") = 1) =>
    LET environment == plan[service_name].environment
        additional == config.additional_environment_variables
    IN /\ DOMAIN environment = DOMAIN additional
            \cup {"SERVICE_HOSTNAME", "SERVICE_REGISTRY_MODE", "SERVICE_REGISTRY_NAMESPACE"}
       /\ environment["SERVICE_HOSTNAME"] = "magma-orc8r-dummy"
       /\ environment["SERVICE_REGISTRY_MODE"] = "k8s"
       /\ environment["SERVICE_REGISTRY_NAMESPACE"] = "banana"
       /\ \A k \in DOMAIN additional :
            k \notin {"SERVICE_HOSTNAME", "SERVICE_REGISTRY_MODE", "SERVICE_REGISTRY_NAMESPACE"}
              => environment[k] = additional[k]

\* A layer added by a charm that passes its own SERVICE_HOSTNAME and an EXTRA variable.
C6_Witness ==
  /\ LifecycleHandled
  /\ Count(last.calls, "add_layer") = 1
  /\ config.additional_environment_variables = [SERVICE_HOSTNAME |-> "x", EXTRA |-> "k8s"]
  /\ plan[service_name].environment["SERVICE_HOSTNAME"] = "magma-orc8r-dummy"
  /\ plan[service_name].environment["EXTRA"] = "k8s"

\* The service was registered with a reachable container when the last handler ran.
WasRunning == last.pre.can_connect /\ service_name \in DOMAIN last.pre.plan

\* C7: when the leader handles relation-joined on a provided relation, it writes
\* "active" in its data bag of that relation: "False", deferring the event, if the
\* service is not registered or the container is unreachable; "True", without
\* deferring, if the service is registered (and the container reachable).
C7_LeaderPublishesOnJoin ==
  (JoinedHandled /\ last.pre.leader) =>
    /\ "active" \in DOMAIN provided[last.rel].data
    /\ WasRunning =>
         (provided[last.rel].data["active"] = "True" /\ NotDeferred)
    /\ ~WasRunning =>
         (provided[last.rel].data["active"] = "False" /\ DeferredOnce)

\* The leader handled relation-joined with the container reachable and no service
\* registered.
C7_Witness ==
  /\ JoinedHandled
  /\ last.pre.leader
  /\ last.pre.can_connect
  /\ service_name \notin DOMAIN last.pre.plan
  /\ provided[last.rel].data["active"] = "False"
  /\ DeferredOnce

\* C8: when a unit that is not the leader handles relation-joined, nothing happens:
\* no call is made (no relation data written, no deferral) and the relation data,
\* the status and the plan are as they were, whether the service runs or not.
C8_NonLeaderJoinIsNoOp ==
  (JoinedHandled /\ ~last.pre.leader) =>
    /\ last.calls = <<>>
    /\ NotDeferred
    /\ provided = last.pre.provided
    /\ status = last.pre.status
    /\ plan = last.pre.plan

\* A unit that is not the leader handled relation-joined while the service ran.
C8_Witness ==
  /\ JoinedHandled
  /\ ~last.pre.leader
  /\ WasRunning
  /\ "active" \notin DOMAIN provided[last.rel].data

\* C9: whatever events were handled before, a handler writes relation data only if
\* the unit is the leader when it runs: a unit that is not the leader writes
\* nothing, on relation-joined or after a reconfiguration.
C9_OnlyLeaderWrites ==
  (last.kind # "none" /\ ~last.pre.leader) =>
    /\ Count(last.calls, "relation_write") = 0
    /\ provided = last.pre.provided

\* A unit that is not the leader reconfigured the container while a provided
\* relation was established, and wrote nothing.
C9_Witness ==
  /\ LifecycleHandled
  /\ ~last.pre.leader
  /\ Count(last.calls, "add_layer") = 1
  /\ provided[1].exists
  /\ Count(last.calls, "relation_write") = 0

\* C10: every evaluation of the readiness check returns TRUE exactly when the
\* container can be reached and the service is registered in it, FALSE when the
\* container is unreachable or the service is not found, and no exception leaves it.
\* (A handler probes the container as it is when the handler ends: relation-joined
\* does not change the plan, and the lifecycle handler probes after adding the layer.)
C10_RunningIffReachableAndRegistered ==
  /\ last.exc = "none"
  /\ \A i \in 1..Len(last.probes) :
       last.probes[i] = [ret |-> (can_connect /\ service_name \in DOMAIN plan), exc |-> "none"]

\* The leader probed an unreachable container whose plan holds the service.
C10_Witness ==
  /\ JoinedHandled
  /\ last.pre.leader
  /\ ~can_connect
  /\ service_name \in DOMAIN plan
  /\ Len(last.probes) = 2
  /\ last.probes[1].ret = FALSE

\* C11: when a required relation has been removed after the unit reached Active, the
\* next lifecycle event handled finds it missing: the status becomes Blocked naming
\* the missing relation(s), the event is deferred, and nothing is applied; the
\* Active status and the plan left by the earlier handling do not let it through.
C11_RemovedRelationBlocksAgain ==
  (LifecycleHandled /\ last.pre.status = ActiveStatus /\ Missing # {}) =>
    /\ status = BlockedStatus("Waiting for relation(s) to be created: "
                              \o Join(InListOrder(Missing), ", "))
    /\ DeferredOnce
    /\ Count(last.calls, "add_layer") = 0
    /\ plan = last.pre.plan

\* The unit was Active with the layer applied, the second relation was removed, and
\* the next lifecycle event was handled with the container reachable.
C11_Witness ==
  /\ LifecycleHandled
  /\ last.pre.status = ActiveStatus
  /\ last.pre.plan = pebble_layer.services
  /\ last.pre.can_connect
  /\ Missing = {"magma-orc8r-certifier"}
  /\ status.name = "blocked"

\* The value this unit has published in provided relation r of bags ("unset" if none).
Published(bags, r) ==
  IF bags[r].exists /\ "active" \in DOMAIN bags[r].data THEN bags[r].data["active"] ELSE "unset"
\* The service is registered with a reachable container.
IsRunning == can_connect /\ service_name \in DOMAIN plan
\* The relations the last handler wrote to.
Written == {last.calls[i].rel : i \in {j \in 1..Len(last.calls) : last.calls[j].op = "relation_write"}}

\* C12 as stated: the published flag follows the run state.  Once the leader has
\* run a handler, and no relation-joined event is waiting to be redelivered, every
\* value it has published says whether the service is running.
C12_FlagFollowsRunState ==
  (/\ last.kind # "none"
   /\ last.pre.leader
   /\ \A e \in deferred : e.kind # "relation_joined") =>
    \A r \in RelIds :
      Published(provided, r) # "unset" => Published(provided, r) = Str(IsRunning)

\* C12, amended: the flag is written only by the leader, into the joining relation
\* when it handles relation-joined and into every established provided relation after
\* a lifecycle handling that added the layer; each write says whether the service is
\* running at that moment, and a handler leaves every other relation's data as it
\* was.  A change of the run state that comes with neither leaves the published
\* value as it was.
C12_FlagWrittenOnJoinOrApply ==
  last.kind # "none" =>
    /\ \A i \in 1..Len(last.calls) :
         last.calls[i].op = "relation_write" =>
           /\ last.pre.leader
           /\ \/ JoinedHandled /\ last.calls[i].rel = last.rel
              \/ LifecycleHandled /\ Count(last.calls, "add_layer") = 1
           /\ last.calls[i].val = Str(IsRunning)
           /\ Published(provided, last.calls[i].rel) = last.calls[i].val
    /\ \A r \in RelIds \ Written : provided[r] = last.pre.provided[r]

\* The leader published "True", the container stopped answering, and the lifecycle
\* event handled after that left the value as it was.
C12_Witness ==
  /\ LifecycleHandled
  /\ last.pre.leader
  /\ ~can_connect
  /\ Published(provided, 1) = "True"
  /\ status = WaitingStatus("Waiting for container to be ready...")

\* C13: an error of the container raised by the apply or by the restart is not
\* caught by the lifecycle handler.  It leaves the handler, which stops at the
\* failing call: the event is not deferred, nothing is written to a relation, and
\* the status stays at Maintenance, never Active.
C13_HostErrorPropagates ==
  last.fault # "none" =>
    /\ LifecycleHandled
    /\ last.exc = PebbleError(last.fault)
    /\ last.calls[Len(last.calls)].op = last.fault
    /\ Count(last.calls, "defer") = 0
    /\ deferred = last.pre.deferred
    /\ \A i \in 1..Len(last.calls) : last.calls[i] # SetStatus(ActiveStatus)
    /\ Count(last.calls, "relation_write") = 0
    /\ provided = last.pre.provided
    /\ status = MaintenanceStatus("Configuring pod")

\* The restart failed on a leader with an established provided relation: the layer
\* is in the plan, the status is Maintenance, the event is not held for redelivery.
C13_Witness ==
  /\ last.fault = "restart"
  /\ last.exc = "ChangeError"
  /\ last.pre.leader
  /\ provided[1].exists
  /\ plan # last.pre.plan
  /\ status = MaintenanceStatus("Configuring pod")
  /\ LastEvent \notin deferred

\* The last lifecycle handling met a blocking condition: a required relation
\* missing or not ready, or the container unreachable.
Blocking == LifecycleHandled /\ (Missing # {} \/ NotReady # {} \/ ~last.pre.can_connect)

\* C14: a layer is added, and the service restarted, only in the handling of a
\* lifecycle event at which every required relation is created and ready and the
\* container is reachable.  A lifecycle handling that meets a blocking condition
\* sets one status and defers once, and does nothing else: no layer, no restart,
\* no write to a relation, no second attempt.
C14_ApplyOnlyWhenUnblocked ==
  /\ (Count(last.calls, "add_layer") > 0 \/ Count(last.calls, "restart") > 0) =>
       /\ LifecycleHandled
       /\ Missing = {}
       /\ NotReady = {}
       /\ last.pre.can_connect
  /\ Blocking =>
       /\ Count(last.calls, "add_layer") = 0
       /\ Count(last.calls, "restart") = 0
       /\ Count(last.calls, "relation_write") = 0
       /\ Len(last.calls) = 2
       /\ last.calls[1].op = "set_status"
       /\ last.calls[2] = Defer
       /\ plan = last.pre.plan
       /\ provided = last.pre.provided

\* The leader, with a provided relation established, a reachable container and a
\* plan that lacks the layer, handles a lifecycle event while the required
\* relation is created and not ready.
C14_Witness ==
  /\ LifecycleHandled
  /\ Missing = {}
  /\ NotReady # {}
  /\ last.pre.can_connect
  /\ last.pre.plan # pebble_layer.services
  /\ provided[1].exists
  /\ status.name = "waiting"

\* The provided relations established when the last handler ran.
Established == {r \in RelIds : last.pre.provided[r].exists}
\* The last handling was a lifecycle handling that added the layer.
Reconfigured == LifecycleHandled /\ Count(last.calls, "add_layer") = 1

\* C15: a lifecycle handling that adds the layer makes its calls in this order:
\* status Maintenance, add the layer, restart the service, then (on the leader) one
\* write of "True" to each established provided relation, and last of all status
\* Active.  After it, on the leader, every established provided relation holds
\* "active" = "True" in this unit's data bag.
C15_ReconfigurationOrder ==
  (/\ LifecycleHandled
   /\ Missing = {} /\ NotReady = {}
   /\ last.pre.can_connect
   /\ last.pre.plan # pebble_layer.services) =>
    LET n == Len(last.calls)
        writes == IF last.pre.leader THEN Established ELSE {}
    IN /\ n = 4 + Cardinality(writes)
       /\ last.calls[1] = SetStatus(MaintenanceStatus("Configuring pod"))
       /\ last.calls[2] = Call("add_layer", 0, container_name)
       /\ last.calls[3] = Call("restart", 0, service_name)
       /\ \A i \in 4..(n - 1) :
            /\ last.calls[i].op = "relation_write"
            /\ last.calls[i].val = "True"
       /\ {last.calls[i].rel : i \in 4..(n - 1)} = writes
       /\ last.calls[n] = SetStatus(ActiveStatus)
       /\ \A r \in writes : Published(provided, r) = "True"

\* The leader reconfigures with two provided relations established, the first of
\* which held "False" before.
C15_Witness ==
  /\ Reconfigured
  /\ last.pre.leader
  /\ Established = RelIds
  /\ Published(last.pre.provided, 1) = "False"
  /\ Published(provided, 1) = "True"
  /\ Published(provided, 2) = "True"

\* C16: when a lifecycle event is handled with the required relations ready, the
\* container reachable and the plan's services equal to the layer's, the handler
\* sets Maintenance and then Active and does nothing else: the plan is as it was,
\* no layer is added, the service is not restarted, no relation is written (also
\* one that holds an outdated value), and the event is not deferred.
C16_EqualPlanIsLeftAlone ==
  (/\ LifecycleHandled
   /\ Missing = {} /\ NotReady = {}
   /\ last.pre.can_connect
   /\ last.pre.plan = pebble_layer.services) =>
    /\ last.calls = <<SetStatus(MaintenanceStatus("Configuring pod")), SetStatus(ActiveStatus)>>
    /\ plan = last.pre.plan
    /\ provided = last.pre.provided
    /\ NotDeferred
    /\ status = ActiveStatus

\* The leader handles a lifecycle event with the plan equal to the layer while an
\* established provided relation holds "False": it still holds "False" afterwards.
C16_Witness ==
  /\ LifecycleHandled
  /\ last.pre.leader
  /\ last.pre.can_connect
  /\ last.pre.plan = pebble_layer.services
  /\ Published(provided, 1) = "False"
  /\ status = ActiveStatus

\* The layers the last handling added to the plan: the calls of add_layer that
\* the container did not fail.
Applies == Count(last.calls, "add_layer") - (IF last.fault = "add_layer" THEN 1 ELSE 0)

\* C17: the handling of one lifecycle event calls add_layer at most once, and asks
\* for the restart of the service exactly when it added a layer (also when the
\* container fails one of the two calls).
C17_AtMostOneApplyRestartIffApply ==
  LifecycleHandled =>
    /\ Count(last.calls, "add_layer") <= 1
    /\ Count(last.calls, "restart") = Applies
    /\ \A i \in 1..Len(last.calls) :
         last.calls[i].op = "restart" => last.calls[i].val = service_name

\* Two handlings one after the other, each of which added the layer once and
\* restarted the service once.
C17_Witness ==
  /\ LifecycleHandled
  /\ last.fault = "none"
  /\ Len(streak) = 2
  /\ streak[1].applies = 1
  /\ Count(last.calls, "add_layer") = 1
  /\ Count(last.calls, "restart") = 1

\* C18: adding the layer merges it into the plan.  After it the plan's entry for
\* the workload's service is the layer's, every other service the plan held is
\* still there as it was, and the plan holds no further service.
C18_ApplyMerges ==
  Reconfigured =>
    /\ DOMAIN plan = DOMAIN last.pre.plan \cup {service_name}
    /\ plan[service_name] = pebble_layer.services[service_name]
    /\ \A n \in DOMAIN last.pre.plan \ {service_name} : plan[n] = last.pre.plan[n]

\* The layer was added to a plan that held another service and an outdated entry
\* for the workload's service.
C18_Witness ==
  /\ Reconfigured
  /\ last.pre.plan = [n \in {service_name, "sidecar"} |->
                        IF n = service_name THEN StaleService ELSE SidecarService]
  /\ plan["sidecar"] = SidecarService
  /\ plan[service_name] # StaleService

\* C19: a lifecycle handling that returns ends in one of two ways.  If every
\* required relation was created and ready and the container reachable, the event
\* is not deferred and the status is Active; otherwise the event is deferred once
\* and the status is Blocked or Waiting.  The status is never left at Maintenance.
C19_ActiveOrDeferred ==
  (LifecycleHandled /\ last.exc = "none") =>
    /\ ~Blocking => NotDeferred /\ status = ActiveStatus
    /\ Blocking => DeferredOnce /\ status.name \in {"blocked", "waiting"}
    /\ status.name # "maintenance"

\* A handling that deferred with status Waiting, redelivered once the relations
\* were ready and the container reachable: Active, and the event no longer held.
C19_Witness ==
  /\ LifecycleHandled
  /\ ~Blocking
  /\ last.pre.status.name = "waiting"
  /\ LastEvent \in last.pre.deferred
  /\ LastEvent \notin deferred
  /\ Cardinality(Required) = 2
  /\ status = ActiveStatus

\* C20: the checks are made in the order created, ready, reachable, and the first
\* that fails alone decides.  With some required relations missing and others
\* created but not ready, the status is Blocked and names the missing ones only;
\* with all created, some not ready and the container unreachable, the status is
\* Waiting and names the not-ready ones, not the container.  Either way the
\* handler sets that one status and defers.
C20_FirstFailingCheckDecides ==
  /\ (LifecycleHandled /\ Missing # {} /\ NotReady \ Missing # {}) =>
       /\ status = BlockedStatus("Waiting for relation(s) to be created: "
                                 \o Join(InListOrder(Missing), ", "))
       /\ last.calls = <<SetStatus(status), Defer>>
  /\ (LifecycleHandled /\ Missing = {} /\ NotReady # {} /\ ~last.pre.can_connect) =>
       /\ status = WaitingStatus("Waiting for relation(s) to be ready: "
                                 \o Join(InListOrder(NotReady), ", "))
       /\ last.calls = <<SetStatus(status), Defer>>

\* The second required relation is missing and the first is created, not ready.
C20_Witness ==
  /\ LifecycleHandled
  /\ Missing = {"magma-orc8r-certifier"}
  /\ NotReady \ Missing = {"magma-orc8r-whatever"}
  /\ status.name = "blocked"
  /\ Len(last.calls) = 2

\* Both required relations are created, one is not ready, the container is unreachable.
C20_UnreachableNotReady ==
  /\ LifecycleHandled
  /\ Cardinality(Required) = 2
  /\ Missing = {}
  /\ Cardinality(NotReady) = 1
  /\ ~last.pre.can_connect
  /\ status.name = "waiting"

\* Relation n exists, has a remote unit, and the first unit of its iteration holds
\* "active" = "True".
HoldsTrue(n) ==
  /\ relations[n].exists
  /\ relations[n].units # <<>>
  /\ "active" \in DOMAIN Head(relations[n].units)
  /\ Head(relations[n].units)["active"] = "True"

\* C21: a required relation counts as ready exactly when it exists, has a remote
\* unit, and the data bag of the unit consulted holds "active" with the string
\* "True".  A relation that does not exist, has no unit, has no "active" key or
\* holds any other value counts as not ready, and the check raises nothing.  A
\* lifecycle handling with the relations created waits exactly when one of them
\* is not ready in this sense.
C21_ReadyIffActiveTrue ==
  /\ \A n \in RequiredNames :
       /\ relation_active(n).exc = "none"
       /\ relation_active(n).ret <=> HoldsTrue(n)
  /\ (LifecycleHandled /\ Missing = {}) =>
       (status.name = "waiting" /\ DeferredOnce) <=>
         ((\E n \in Required : ~HoldsTrue(n)) \/ ~last.pre.can_connect)

\* The remote unit of the required relation holds "true": the handling waits for
\* the relation to be ready.
C21_Witness ==
  /\ LifecycleHandled
  /\ relations["magma-orc8r-whatever"].exists
  /\ relations["magma-orc8r-whatever"].units # <<>>
  /\ "active" \in DOMAIN Head(relations["magma-orc8r-whatever"].units)
  /\ Head(relations["magma-orc8r-whatever"].units)["active"] = "true"
  /\ status = WaitingStatus("Waiting for relation(s) to be ready: magma-orc8r-whatever")

\* C22: in the dependency-bearing variant the datastore relation is checked before
\* the container, on pebble-ready and on upgrade-charm alike.  Without the
\* relation the status is Blocked "Waiting for db relation to be created"; with
\* the relation and without its connection parameters the status is Waiting
\* "Waiting for db relation to be ready".  Either way the event is deferred, the
\* handler does nothing else, and the plan is as it was.
C22_DatastoreCheckedFirst ==
  (LifecycleHandled /\ ~db_relation_ready) =>
    /\ ~db.exists => status = BlockedStatus("Waiting for db relation to be created")
    /\ db.exists => status = WaitingStatus("Waiting for db relation to be ready")
    /\ last.calls = <<SetStatus(status), Defer>>
    /\ DeferredOnce
    /\ plan = last.pre.plan

\* Upgrade-charm handled with the datastore relation established, nothing
\* published in it, the container unreachable and the plan without the layer.
C22_Witness ==
  /\ last.kind = "upgrade_charm"
  /\ db.exists /\ db.data = EmptyDict
  /\ ~last.pre.can_connect
  /\ last.pre.plan = EmptyPlan
  /\ status = WaitingStatus("Waiting for db relation to be ready")
  /\ LastEvent \in deferred

\* Every required relation is created and ready and the container is reachable.
Unblocked == can_connect /\ \A n \in Required : HoldsTrue(n)
\* A lifecycle event is held for redelivery.
LifecycleDeferred == \E e \in deferred : e.kind \in LifecycleKinds
\* The unit is Active and the plan holds the layer's entry for the service.
Reconciled ==
  /\ status = ActiveStatus
  /\ service_name \in DOMAIN plan
  /\ plan[service_name] = pebble_layer.services[service_name]

\* C23: with every deferred event redelivered sooner or later, a deferred
\* lifecycle event leads to the unit being Active with the layer's entry in the
\* plan, unless the relations stop being created and ready or the container
\* stops being reachable; and no step takes a lifecycle event out of the deferred
\* ones other than a handling of it that ends Active.
C23_DeferredLifecycleReconciles ==
  /\ (LifecycleDeferred /\ Unblocked) ~> (Reconciled \/ ~Unblocked)
  /\ [][\A e \in deferred :
          (e.kind \in LifecycleKinds /\ e \notin deferred') =>
            (status' = ActiveStatus /\ last'.kind = e.kind)]_vars

\* A lifecycle event that was deferred while the relations were not ready has been
\* redelivered with everything in place: Active, the layer in the plan, nothing held.
C23_Witness ==
  /\ LifecycleHandled
  /\ LastEvent \in last.pre.deferred
  /\ last.pre.status.name \in {"blocked", "waiting"}
  /\ last.pre.plan # pebble_layer.services
  /\ Required = {"magma-orc8r-whatever"}
  /\ Reconciled
  /\ deferred = {}

\* C24: on a unit that stays the leader, with every deferred event redelivered
\* sooner or later: a relation-joined event is held for redelivery only with a
\* value published in its relation, and once the service is running the held
\* event leads to "True" being published there and the event no longer being
\* held, unless the service stops running first.
C24_DeferredJoinPublishesTrue ==
  /\ [](\A r \in RelIds :
          Event("relation_joined", r) \in deferred => Published(provided, r) \in {"False", "True"})
  /\ \A r \in RelIds :
       (Event("relation_joined", r) \in deferred /\ IsRunning)
         ~> (\/ Published(provided, r) = "True" /\ Event("relation_joined", r) \notin deferred
             \/ ~IsRunning)

\* The relation-joined event, deferred with "False" published, was redelivered
\* once the service ran: "True" is published and the event is no longer held.
C24_Witness ==
  /\ JoinedHandled
  /\ LastEvent \in last.pre.deferred
  /\ Published(last.pre.provided, last.rel) = "False"
  /\ Published(provided, last.rel) = "True"
  /\ LastEvent \notin deferred

\* What a lifecycle handling comes to, as a function of the environment it finds
\* and the configuration: the required relations rels, whether the container
\* answers (cc), and the container's plan p.  The unit's status, the events held
\* and the handlings before it are no arguments of it.
OutcomeOf(rels, cc, p) ==
  LET missing == SelectSeq(config.required_relations, LAMBDA n : ~rels[n].exists)
      unready == SelectSeq(config.required_relations,
                           LAMBDA n : ~(/\ rels[n].exists
                                        /\ rels[n].units # <<>>
                                        /\ "active" \in DOMAIN Head(rels[n].units)
                                        /\ Head(rels[n].units)["active"] = "True"))
      desired == pebble_layer.services
  IN IF missing # <<>>
     THEN [status |-> BlockedStatus("Waiting for relation(s) to be created: " \o Join(missing, ", ")),
           defers |-> 1, applies |-> 0, plan |-> p]
     ELSE IF unready # <<>>
     THEN [status |-> WaitingStatus("Waiting for relation(s) to be ready: " \o Join(unready, ", ")),
           defers |-> 1, applies |-> 0, plan |-> p]
     ELSE IF ~cc
     THEN [status |-> WaitingStatus("Waiting for container to be ready..."),
           defers |-> 1, applies |-> 0, plan |-> p]
     ELSE IF p = desired
     THEN [status |-> ActiveStatus, defers |-> 0, applies |-> 0, plan |-> p]
     ELSE [status |-> ActiveStatus, defers |-> 0, applies |-> 1,
           plan |-> [n \in DOMAIN p \cup DOMAIN desired |->
                       IF n \in DOMAIN desired THEN desired[n] ELSE p[n]]]

\* C25: what a lifecycle handling does (the status it sets, whether it defers the
\* event, whether it adds the layer, and the plan it leaves) is a function of the
\* required relations, the container's reachability and plan, and the
\* configuration; whatever the status was before and whatever was handled
\* before, the same environment gives the same outcome and the same layer.
C25_OutcomeIsFunctionOfEnvironment ==
  LifecycleHandled =>
    LET o == OutcomeOf(last.pre.relations, last.pre.can_connect, last.pre.plan)
    IN /\ status = o.status
       /\ Count(last.calls, "defer") = o.defers
       /\ o.defers = 1 => LastEvent \in deferred
       /\ o.defers = 0 => deferred \subseteq last.pre.deferred
       /\ Count(last.calls, "add_layer") = o.applies
       /\ plan = o.plan

\* A unit that was Active, with an event of the same kind already held, handles a
\* lifecycle event with the container unreachable: it waits for the container.
C25_Witness ==
  /\ LifecycleHandled
  /\ last.pre.status = ActiveStatus
  /\ last.pre.deferred # {}
  /\ ~last.pre.can_connect
  /\ status = WaitingStatus("Waiting for container to be ready...")

\* C26: the leader's handling of relation-joined changes the "active" key of this
\* unit's data bag in the joining relation, overwriting what was there, and
\* nothing else: the status, the plan, the data of the other relations and the
\* other keys of the joining relation's data bag are as they were, and the
\* handler sets no status, adds no layer and restarts nothing.
C26_JoinChangesOnlyActiveKey ==
  (JoinedHandled /\ last.pre.leader) =>
    LET before == last.pre.provided[last.rel].data
        after == provided[last.rel].data
    IN /\ status = last.pre.status
       /\ plan = last.pre.plan
       /\ \A r \in RelIds \ {last.rel} : provided[r] = last.pre.provided[r]
       /\ provided[last.rel].exists
       /\ DOMAIN after = DOMAIN before \cup {"active"}
       /\ \A k \in DOMAIN before \ {"active"} : after[k] = before[k]
       /\ after["active"] = Str(WasRunning)
       /\ Count(last.calls, "relation_write") = 1
       /\ Count(last.calls, "set_status") = 0
       /\ Count(last.calls, "add_layer") = 0
       /\ Count(last.calls, "restart") = 0

\* The leader handles relation-joined on the second relation, whose data bag held
\* "False" beside the address: it now holds "True" beside the address, and the
\* first relation still holds "False".
C26_Witness ==
  /\ JoinedHandled
  /\ last.pre.leader
  /\ last.rel = 2
  /\ Published(last.pre.provided, 2) = "False"
  /\ Published(provided, 2) = "True"
  /\ "ingress-address" \in DOMAIN provided[2].data
  /\ Published(provided, 1) = "False"

====
